---- MODULE Spec2Model ----
(***************************************************************************)
(* Model of the synchronization engine of jira-bugzilla-integration:       *)
(* the step pipeline of DefaultExecutor.__call__ (jbi/actions/default.py)  *)
(* run concurrently for one Bugzilla bug, the Jira service operations it   *)
(* calls (jbi/services/jira.py), the retry instrumentation of the clients  *)
(* and the two remote trackers the calls act on.                           *)
(***************************************************************************)
EXTENDS Integers, Sequences, FiniteSets, TLC

VARIABLES
    run,       \* run[r]: the ActionContext and program position of pipeline run r
    see_also,  \* Bugzilla: the bug's see_also list (keys of linked issues)
    issues,    \* Jira: issues[k] is the run whose create_issue made issue k ("pre": made before both)
    deleted,   \* Jira: the keys of deleted issues
    faults,    \* remote failures the environment may still inject
    call,      \* the operation of JiraService called on its own, with its inputs
    svc,       \* the position and the outcome of that operation
    fields,    \* create_jira_issue: the fields sent to client.create_issue
    futures,   \* _fetch_project_permissions: futures[f] is the lookup submitted for project f
    all_projects_perms  \* _fetch_project_permissions: the merged map

pipeline_vars == <<run, see_also, issues, deleted, faults>>

service_vars == <<call, svc, fields, futures, all_projects_perms>>

vars == <<run, see_also, issues, deleted, faults,
          call, svc, fields, futures, all_projects_perms>>

-----------------------------------------------------------------------------
(* Bounds of the model *)

\* The failures of remote calls the environment injects in one behaviour.
MaxFaults == 2

\* settings.max_retries + 1: the attempts instrument makes of one call; a
\* setting of the deployment, any value of which the engine must work with.
MaxTries == 2

\* Two webhook deliveries for the same bug, handled concurrently.
Runs == {"A", "B"}

\* The Jira projects the actions are configured for: one more than the
\* workers of the pool, so that a lookup has to wait for a worker.
NumProjects == 5

\* The users a lookup by e-mail may return.
MaxUsers == 2

\* The component names one call of update_issue_components asks for.
MaxComponents == 2

-----------------------------------------------------------------------------
(* Values *)

None == 0

\* Issue keys are integers: k > 0 is issue k of the configured project,
\* k < 0 an issue of some other Jira project.
KeyProject(k) == IF k > 0 THEN "PROJ" ELSE "OTHER"

jira_project_key == "PROJ"

\* The exceptions a remote call raises: an HTTP error carrying a response
\* with a status code, or an error with no response (ApiError, ConnectionError).
HTTPStatuses == {400, 404, 499, 500, 503}

NoResponse == [resp |-> FALSE, status |-> None]

Excs == {NoResponse} \cup {[resp |-> TRUE, status |-> s] : s \in HTTPStatuses}

NoExc == [resp |-> FALSE, status |-> -1]

JiraCreateError == [resp |-> FALSE, status |-> -2]

NotFound == [resp |-> TRUE, status |-> 404]

\* The payloads of a webhook event: target kind, whether the bug carries a
\* comment, and the ordered field changes of the event.
ChangeLists == {<< >>, <<"status">>, <<"summary", "assigned_to", "resolution">>}

Inputs ==
    {[target |-> "comment", comment |-> c, changes |-> << >>] : c \in BOOLEAN}
    \cup {[target |-> "bug", comment |-> FALSE, changes |-> ch] : ch \in ChangeLists}
    \cup {[target |-> "bug", comment |-> TRUE, changes |-> << >>]}

-----------------------------------------------------------------------------
(* Pure functions *)

RECURSIVE extract_from_see_also(_, _)
\* BugzillaBug.extract_from_see_also: the first key of the see_also list that
\* belongs to the project, None when there is none.
extract_from_see_also(sa, project_key) ==
    IF sa = << >> THEN None
    ELSE IF KeyProject(Head(sa)) = project_key THEN Head(sa)
    ELSE extract_from_see_also(Tail(sa), project_key)

fatal_code_lax(exc) ==
    IF exc.resp THEN 400 < exc.status /\ exc.status <= 500 ELSE FALSE

\* fatal_code: do not retry 4XX errors; an exception without a response is
\* not fatal.
fatal_code(exc) ==
    IF exc.resp THEN 400 <= exc.status /\ exc.status < 500 ELSE FALSE

\* The methods JiraClient wraps in instrumented_method.
InstrumentedJira ==
    {"get_server_info", "get_permissions", "get_project_components", "projects",
     "update_issue", "update_issue_field", "set_issue_status",
     "issue_add_comment", "create_issue", "get_project"}

\* The methods of the Bugzilla client, all instrumented.
InstrumentedBugzilla == {"get_comments", "get_bug", "update_bug"}

Instrumented(m) == m \in InstrumentedJira \cup InstrumentedBugzilla

\* The methods of the Jira client the engine calls.
JiraMethods ==
    {"issue_add_comment", "create_issue", "delete_issue",
     "create_or_update_issue_remote_links", "update_issue_field"}

is_noop_any(operation) == operation \in {"IGNORE", "COMMENT"}

\* DefaultExecutor.__call__: is_noop
is_noop(operation) == operation = "IGNORE"

create_comment_guard_any_payload(c) ==
    ~(c.target # "comment" \/ c.issue = None)

\* maybe_create_comment: the guards that let the step act
create_comment_guard(c) ==
    ~(c.target # "comment" \/ c.issue = None) /\ c.comment

create_issue_guard_relinks(c) ==
    ~(c.target # "bug" \/ c.op # "IGNORE")

\* maybe_create_issue: the guard that lets the step act
create_issue_guard(c) ==
    ~(c.target # "bug" \/ c.issue # None \/ c.op # "IGNORE")

update_issue_guard_no_op(c) ==
    ~(c.target # "bug" \/ c.issue = None)

\* maybe_update_issue: the guard that lets the step act
update_issue_guard(c) ==
    ~(c.target # "bug" \/ c.issue = None \/ c.op # "IGNORE")

duplicate_creation_event_any(issue_key, jira_key_in_bugzilla) ==
    issue_key # jira_key_in_bugzilla

\* delete_jira_issue_if_duplicate: _duplicate_creation_event
duplicate_creation_event(issue_key, jira_key_in_bugzilla) ==
    jira_key_in_bugzilla # None /\ issue_key # jira_key_in_bugzilla

\* The responses of client.create_issue: a dictionary, or a list whose first
\* item is one, with its lists of errors and of error messages.
CreateResponses ==
    [list : BOOLEAN, errors : {<< >>, <<"e">>}, errorMessages : {<< >>, <<"m">>}]

\* ",".join of a list of at most one string
joined(list) == IF list = << >> THEN "" ELSE list[1]

create_jira_issue_raises_errors_only(jira_response_create) ==
    joined(jira_response_create.errors) # ""

\* create_jira_issue: the test that raises JiraCreateError
create_jira_issue_raises(jira_response_create) ==
    LET errs == joined(jira_response_create.errors)
        msgs == joined(jira_response_create.errorMessages)
    IN errs # "" \/ msgs # ""

create_issue_responses_swapped(bugzilla_response, jira_response) ==
    <<jira_response, bugzilla_response>>

\* maybe_create_issue: the responses it returns when it kept the issue
create_issue_responses(bugzilla_response, jira_response) ==
    <<bugzilla_response, jira_response>>

RECURSIVE changes_comments_no_status(_)
changes_comments_no_status(changes) ==
    IF changes = << >> THEN << >>
    ELSE LET f == Head(changes) IN
         (IF f \in {"resolution"} THEN <<"status_resolution">> ELSE << >>)
         \o (IF f \in {"assigned_to", "assignee"} THEN <<"assignee">> ELSE << >>)
         \o changes_comments_no_status(Tail(changes))

RECURSIVE changes_comments_no_assigned_to(_)
changes_comments_no_assigned_to(changes) ==
    IF changes = << >> THEN << >>
    ELSE LET f == Head(changes) IN
         (IF f \in {"status", "resolution"} THEN <<"status_resolution">> ELSE << >>)
         \o (IF f \in {"assignee"} THEN <<"assignee">> ELSE << >>)
         \o changes_comments_no_assigned_to(Tail(changes))

RECURSIVE changes_comments(_)
\* add_jira_comments_for_changes: the comments to post, one per relevant change
changes_comments(changes) ==
    IF changes = << >> THEN << >>
    ELSE LET f == Head(changes) IN
         (IF f \in {"status", "resolution"} THEN <<"status_resolution">> ELSE << >>)
         \o (IF f \in {"assigned_to", "assignee"} THEN <<"assignee">> ELSE << >>)
         \o changes_comments(Tail(changes))

-----------------------------------------------------------------------------
(* The pipeline: what a run does between two remote calls *)

\* DefaultExecutor.__call__: the pipeline returned
Return(c) ==
    [c EXCEPT !.pc = "done", !.handled = ~is_noop(c.op)]

changes_guard_issue_set(c) ==
    c.issue # None

\* maybe_add_jira_comments_for_changes: the guard that lets the step act
changes_guard(c) ==
    ~(c.op # "UPDATE")

\* context.update(operation=...): a new context with the operation replaced.
\* snap keeps the fields the new context was made with.
update(c, operation) ==
    [c EXCEPT !.op = operation, !.snap = [op |-> operation, issue |-> c.issue]]

\* maybe_add_jira_comments_for_changes, up to its next remote call
EnterChanges(c) ==
    IF ~changes_guard(c) THEN Return(c)
    ELSE IF c.cidx < Len(changes_comments(c.changes))
         THEN [c EXCEPT !.pc = "changes_comment"]
         ELSE Return(c)

\* maybe_update_issue, up to its remote call
EnterUpdate(c) ==
    IF update_issue_guard(c)
    THEN [update(c, "UPDATE") EXCEPT !.pc = "update_issue"]
    ELSE EnterChanges(c)

\* maybe_create_issue, up to its first remote call
EnterCreate(c) ==
    IF create_issue_guard(c)
    THEN [update(c, "CREATE") EXCEPT !.pc = "get_comments"]
    ELSE EnterUpdate(c)

\* maybe_create_comment, up to its remote call
EnterComment(c) ==
    IF create_comment_guard(c)
    THEN [update(c, "COMMENT") EXCEPT !.pc = "add_jira_comment"]
    ELSE EnterCreate(c)

Propagate_reissues(c, m, exc) ==
    [c EXCEPT !.err = exc]

Propagate_suppressed(c, m, exc) ==
    [c EXCEPT !.pc = "done", !.handled = TRUE, !.at = m, !.err = exc]

\* The exception exc of the call m leaves the step and the pipeline: no step
\* of default.py catches it.
Propagate(c, m, exc) ==
    [c EXCEPT !.pc = "raised", !.at = m, !.err = exc]

\* The remote served the call m of run context c.
Served(c, m) == [c EXCEPT !.trace = Append(@, m), !.tries = 0, !.err = NoExc]

\* instrument (backoff.on_exception): attempt number c.tries + 1 of method m
\* raised exc. An instrumented method is tried again unless the error is
\* fatal or the attempts are used up; otherwise the exception leaves the run.
OnFail(c, m, exc) ==
    IF Instrumented(m) /\ ~fatal_code(exc) /\ c.tries + 1 < MaxTries
    THEN [c EXCEPT !.tries = @ + 1, !.err = exc]
    ELSE Propagate([c EXCEPT !.tries = @ + 1], m, exc)

-----------------------------------------------------------------------------
(* The operations of JiraService called on their own *)

JIRA_DESCRIPTION_CHAR_LIMIT == 32767

\* ThreadPoolExecutor(max_workers=4)
max_workers == 4

\* actions.configured_jira_projects_keys
Projects == 1..NumProjects

\* Descriptions around the limit: of one character only, and of a pattern in
\* which no two different positions less than three apart agree.
DescriptionLengths ==
    {0, 1, JIRA_DESCRIPTION_CHAR_LIMIT - 1, JIRA_DESCRIPTION_CHAR_LIMIT,
     JIRA_DESCRIPTION_CHAR_LIMIT + 1, JIRA_DESCRIPTION_CHAR_LIMIT + 4}

Descriptions ==
    {[i \in 1..n |-> IF k = 1 THEN "a" ELSE <<"x", "y", "z">>[(i % k) + 1]] :
        n \in DescriptionLengths, k \in {1, 3}}

\* response["permissions"] of get_permissions, for every project
PermissionTables == [Projects -> {"granted", "denied"}]

\* The users user_find_by_user_string returns: their account ids.
UserLists == {[i \in 1..n |-> i] : n \in 0..MaxUsers}

\* The names of components; a project holds each name at most once.
ComponentNames == {"Frontend", "Backend", "Docs"}

\* components: the names asked for, in any order and with repetitions
ComponentRequests == UNION {[1..n -> ComponentNames] : n \in 0..MaxComponents}

\* The responses of get_project_components: a list of components, each with
\* its name and its id.
ProjectComponentLists ==
    {[i \in 1..Len(names) |-> [name |-> names[i], id |-> <<"id", names[i]>>]] :
        names \in {n \in UNION {[1..k -> ComponentNames] : k \in 0..Cardinality(ComponentNames)} :
                      \A i, j \in 1..Len(n) : n[i] = n[j] => i = j}}

\* The keys of ServiceHealth that check_health computes from lookups, in the
\* order of the dictionary.
HealthFlags ==
    <<"all_projects_are_visible", "all_projects_have_permissions",
      "all_projects_components_exist", "all_projects_issue_types_exist">>

\* The client method the lookup of a flag calls.
HealthLookup(flag) ==
    CASE flag = "all_projects_are_visible" -> "projects"
      [] flag = "all_projects_have_permissions" -> "get_permissions"
      [] flag = "all_projects_components_exist" -> "get_project_components"
      [] flag = "all_projects_issue_types_exist" -> "get_project"

HealthAnswers == [{HealthFlags[i] : i \in 1..Len(HealthFlags)} -> BOOLEAN]

NoCall ==
    [method |-> "", description |-> << >>,
     permissions |-> [p \in Projects |-> "granted"], users |-> << >>,
     components |-> << >>, all_project_components |-> << >>,
     server_info |-> FALSE,
     answers |-> [f \in {HealthFlags[i] : i \in 1..Len(HealthFlags)} |-> FALSE]]

ServiceCalls ==
    {[NoCall EXCEPT !.method = "create_jira_issue", !.description = d] :
        d \in Descriptions}
    \cup {[NoCall EXCEPT !.method = "_fetch_project_permissions", !.permissions = t] :
        t \in PermissionTables}
    \cup {[NoCall EXCEPT !.method = "assign_jira_user", !.users = u] :
        u \in UserLists}
    \cup {[NoCall EXCEPT !.method = "update_issue_components", !.components = c,
                         !.all_project_components = p] :
        c \in ComponentRequests, p \in ProjectComponentLists}
    \cup {[NoCall EXCEPT !.method = "check_health", !.server_info = i, !.answers = a] :
        i \in BOOLEAN, a \in HealthAnswers}

IdleService ==
    [pc |-> "idle", err |-> "", lookups |-> 0, updates |-> 0, tries |-> 0,
     missing_components |-> {}, jira_components |-> << >>, resp |-> "",
     is_up |-> FALSE, flag |-> 0, health |-> << >>, calls |-> << >>]

\* fields before create_jira_issue builds it
NoFields == [description |-> << >>]

\* A future of the pool: the project it was submitted for (the value of
\* futures_to_projects), its state and its result.
NoFuture(project_key) ==
    [project_key |-> project_key, state |-> "unsubmitted", response |-> ""]

\* all_projects_perms = {}
EmptyMap == [k \in {} |-> ""]

ServiceIdle ==
    /\ svc = IdleService
    /\ fields = NoFields
    /\ futures = [f \in Projects |-> NoFuture(f)]
    /\ all_projects_perms = EmptyMap

truncate_one_short(description) ==
    SubSeq(description, 1,
           IF Len(description) < JIRA_DESCRIPTION_CHAR_LIMIT - 1
           THEN Len(description) ELSE JIRA_DESCRIPTION_CHAR_LIMIT - 1)

\* description[:JIRA_DESCRIPTION_CHAR_LIMIT]
truncate(description) ==
    SubSeq(description, 1,
           IF Len(description) < JIRA_DESCRIPTION_CHAR_LIMIT
           THEN Len(description) ELSE JIRA_DESCRIPTION_CHAR_LIMIT)

worker_available_one_more(running) == running <= max_workers

\* The pool starts a queued lookup while fewer than max_workers run.
worker_available(running) == running < max_workers

find_jira_user_raises_none_found(users) == Len(users) = 0

\* find_jira_user: len(users) != 1
find_jira_user_raises(users) == Len(users) # 1

RECURSIVE match_components_keeps_missing(_, _, _)
match_components_keeps_missing(all_project_components, missing_components, jira_components) ==
    IF all_project_components = << >>
    THEN [missing_components |-> missing_components, jira_components |-> jira_components]
    ELSE LET comp == Head(all_project_components) IN
         IF comp.name \in missing_components
         THEN match_components_keeps_missing(Tail(all_project_components), missing_components,
                                             Append(jira_components, [id |-> comp.id]))
         ELSE match_components_keeps_missing(Tail(all_project_components), missing_components,
                                             jira_components)

\* update_issue_components: the loop over the components of the project
RECURSIVE match_components(_, _, _)
match_components(all_project_components, missing_components, jira_components) ==
    IF all_project_components = << >>
    THEN [missing_components |-> missing_components, jira_components |-> jira_components]
    ELSE LET comp == Head(all_project_components) IN
         IF comp.name \in missing_components
         THEN match_components(Tail(all_project_components),
                               missing_components \ {comp.name},
                               Append(jira_components, [id |-> comp.id]))
         ELSE match_components(Tail(all_project_components), missing_components,
                               jira_components)

is_gated_every_flag(flag) == TRUE

\* check_health: the flags computed as `is_up and ...`
is_gated(flag) ==
    flag \in {"all_projects_are_visible", "all_projects_components_exist",
              "all_projects_issue_types_exist"}

\* all_projects_perms[project_key] = response
merge(perms, project_key, response) ==
    [k \in DOMAIN perms \cup {project_key} |->
        IF k = project_key THEN response ELSE perms[k]]

Running == {f \in Projects : futures[f].state = "running"}

-----------------------------------------------------------------------------
(* Initial state *)

IdleRun ==
    [pc |-> "idle", target |-> "bug", comment |-> FALSE, changes |-> << >>,
     op |-> "IGNORE", issue |-> None, resp |-> << >>, trace |-> << >>,
     tries |-> 0, at |-> "", err |-> NoExc, handled |-> FALSE, cidx |-> 0,
     checked |-> FALSE, ref |-> None, delarg |-> None, linked |-> None,
     cerr |-> FALSE, snap |-> [op |-> "IGNORE", issue |-> None]]

\* The bug is not linked, is linked to issue 1 of the project, or is linked
\* to an issue of another project.
Init ==
    /\ run = [r \in Runs |-> IdleRun]
    /\ \/ see_also = << >> /\ issues = << >>
       \/ see_also = <<1>> /\ issues = <<"pre">>
       \/ see_also = <<-1>> /\ issues = << >>
    /\ deleted = {}
    /\ faults = MaxFaults
    /\ call = NoCall
    /\ ServiceIdle

-----------------------------------------------------------------------------
(* Actions *)

\* The environment injects a failure.
Fault(exc) ==
    /\ faults > 0
    /\ faults' = faults - 1
    /\ exc \in Excs

\* DefaultExecutor.__call__ is called with a webhook event and the bug as
\* Bugzilla holds it, builds the context and runs to the first remote call.
Start(r) ==
    /\ run[r].pc = "idle"
    /\ \E i \in Inputs :
         LET linked_issue_key == extract_from_see_also(see_also, jira_project_key)
         IN run' = [run EXCEPT ![r] = EnterComment(
                       [@ EXCEPT !.target = i.target, !.comment = i.comment,
                                 !.changes = i.changes, !.op = "IGNORE",
                                 !.snap = [op |-> "IGNORE", issue |-> linked_issue_key],
                                 !.issue = linked_issue_key,
                                 !.linked = linked_issue_key])]
    /\ UNCHANGED <<see_also, issues, deleted, faults>>
    /\ UNCHANGED service_vars

\* maybe_create_comment: jira.add_jira_comment (client.issue_add_comment)
AddJiraCommentOk(r) ==
    /\ run[r].pc = "add_jira_comment"
    /\ run' = [run EXCEPT ![r] =
                 EnterCreate([Served(@, "issue_add_comment") EXCEPT
                                 !.resp = Append(@, "comment")])]
    /\ UNCHANGED <<see_also, issues, deleted, faults>>
    /\ UNCHANGED service_vars

AddJiraCommentFail(r) ==
    /\ run[r].pc = "add_jira_comment"
    /\ \E exc \in Excs, applied \in BOOLEAN :
         /\ Fault(exc)
         /\ run' = [run EXCEPT ![r] =
                      OnFail(IF applied THEN [@ EXCEPT !.trace = Append(@, "issue_add_comment")]
                             ELSE @,
                             "issue_add_comment", exc)]
    /\ UNCHANGED <<see_also, issues, deleted>>
    /\ UNCHANGED service_vars

\* maybe_create_issue: bugzilla.get_client().get_comments
GetCommentsOk(r) ==
    /\ run[r].pc = "get_comments"
    /\ run' = [run EXCEPT ![r] = [Served(@, "get_comments") EXCEPT !.pc = "create_issue"]]
    /\ UNCHANGED <<see_also, issues, deleted, faults>>
    /\ UNCHANGED service_vars

GetCommentsFail(r) ==
    /\ run[r].pc = "get_comments"
    /\ \E exc \in Excs :
         /\ Fault(exc)
         /\ run' = [run EXCEPT ![r] = OnFail(@, "get_comments", exc)]
    /\ UNCHANGED <<see_also, issues, deleted>>
    /\ UNCHANGED service_vars

\* maybe_create_issue: jira.create_jira_issue (client.create_issue), then
\* context.jira.issue = issue_key
CreateIssueOk(r) ==
    /\ run[r].pc = "create_issue"
    /\ issues' = Append(issues, r)
    /\ \E jira_response_create \in CreateResponses :
         /\ ~create_jira_issue_raises(jira_response_create)
         /\ run' = [run EXCEPT ![r] =
                      [Served(@, "create_issue") EXCEPT
                          !.issue = Len(issues) + 1, !.pc = "get_bug",
                          !.cerr = jira_response_create.errors # << >>
                                   \/ jira_response_create.errorMessages # << >>]]
    /\ UNCHANGED <<see_also, deleted, faults>>
    /\ UNCHANGED service_vars

\* client.create_issue raised: before Jira made the issue, or after it did.
CreateIssueFail(r) ==
    /\ run[r].pc = "create_issue"
    /\ \E exc \in Excs, applied \in BOOLEAN :
         /\ Fault(exc)
         /\ issues' = IF applied THEN Append(issues, r) ELSE issues
         /\ run' = [run EXCEPT ![r] =
                      OnFail(IF applied THEN [@ EXCEPT !.trace = Append(@, "create_issue")]
                             ELSE @,
                             "create_issue", exc)]
    /\ UNCHANGED <<see_also, deleted>>
    /\ UNCHANGED service_vars

\* create_jira_issue: the response of client.create_issue lists errors, and
\* JiraCreateError is raised.
CreateIssueErrors(r) ==
    /\ run[r].pc = "create_issue"
    /\ faults > 0
    /\ faults' = faults - 1
    /\ \E jira_response_create \in CreateResponses :
         /\ create_jira_issue_raises(jira_response_create)
         /\ run' = [run EXCEPT ![r] =
                      Propagate([@ EXCEPT !.tries = 0, !.cerr = TRUE],
                                "create_jira_issue", JiraCreateError)]
    /\ UNCHANGED <<see_also, issues, deleted>>
    /\ UNCHANGED service_vars

\* maybe_create_issue: bugzilla.get_client().get_bug, then the test of
\* jira.delete_jira_issue_if_duplicate on the bug as fetched
GetBugOk(r) ==
    /\ run[r].pc = "get_bug"
    /\ LET key == extract_from_see_also(see_also, jira_project_key)
           c == [Served(run[r], "get_bug") EXCEPT !.checked = TRUE, !.ref = key]
       IN run' = [run EXCEPT ![r] =
                    IF duplicate_creation_event(c.issue, key)
                    THEN [c EXCEPT !.pc = "delete_issue"]
                    ELSE [c EXCEPT !.pc = "add_link_to_jira"]]
    /\ UNCHANGED <<see_also, issues, deleted, faults>>
    /\ UNCHANGED service_vars

GetBugFail(r) ==
    /\ run[r].pc = "get_bug"
    /\ \E exc \in Excs :
         /\ Fault(exc)
         /\ run' = [run EXCEPT ![r] = OnFail(@, "get_bug", exc)]
    /\ UNCHANGED <<see_also, issues, deleted>>
    /\ UNCHANGED service_vars

\* delete_jira_issue_if_duplicate: client.delete_issue(issue_key). The
\* response of Jira is either a body (truthy) or nothing (falsy);
\* maybe_create_issue returns at once only for a truthy response.
DeleteIssueOk(r) ==
    /\ run[r].pc = "delete_issue"
    /\ deleted' = deleted \cup {run[r].issue}
    /\ \E truthy \in BOOLEAN :
         LET c == [Served(run[r], "delete_issue") EXCEPT !.delarg = run[r].issue]
         IN run' = [run EXCEPT ![r] =
                      IF truthy
                      THEN EnterUpdate([c EXCEPT !.resp = Append(@, "delete")])
                      ELSE [c EXCEPT !.pc = "add_link_to_jira"]]
    /\ UNCHANGED <<see_also, issues, faults>>
    /\ UNCHANGED service_vars

DeleteIssueFail(r) ==
    /\ run[r].pc = "delete_issue"
    /\ \E exc \in Excs, applied \in BOOLEAN :
         /\ Fault(exc)
         /\ deleted' = IF applied THEN deleted \cup {run[r].issue} ELSE deleted
         /\ run' = [run EXCEPT ![r] =
                      OnFail([(IF applied THEN [@ EXCEPT !.trace = Append(@, "delete_issue")]
                               ELSE @)
                              EXCEPT !.delarg = run[r].issue],
                             "delete_issue", exc)]
    /\ UNCHANGED <<see_also, issues>>
    /\ UNCHANGED service_vars

\* maybe_create_issue: bugzilla.add_link_to_jira (the issue is added to the
\* see_also list of the bug)
AddLinkToJiraOk(r) ==
    /\ run[r].pc = "add_link_to_jira"
    /\ see_also' = Append(see_also, run[r].issue)
    /\ run' = [run EXCEPT ![r] =
                 [Served(@, "update_bug") EXCEPT !.pc = "add_link_to_bugzilla"]]
    /\ UNCHANGED <<issues, deleted, faults>>
    /\ UNCHANGED service_vars

AddLinkToJiraFail(r) ==
    /\ run[r].pc = "add_link_to_jira"
    /\ \E exc \in Excs :
         /\ Fault(exc)
         /\ run' = [run EXCEPT ![r] = OnFail(@, "update_bug", exc)]
    /\ UNCHANGED <<see_also, issues, deleted>>
    /\ UNCHANGED service_vars

\* maybe_create_issue: jira.add_link_to_bugzilla
\* (client.create_or_update_issue_remote_links)
AddLinkToBugzillaOk(r) ==
    /\ run[r].pc = "add_link_to_bugzilla"
    /\ run[r].issue \notin deleted
    /\ run' = [run EXCEPT ![r] =
                 EnterUpdate([Served(@, "create_or_update_issue_remote_links") EXCEPT
                                 !.resp = @ \o create_issue_responses("link_bugzilla", "link_jira")])]
    /\ UNCHANGED <<see_also, issues, deleted, faults>>
    /\ UNCHANGED service_vars

\* Jira answers 404 for an issue that was deleted.
AddLinkToBugzillaGone(r) ==
    /\ run[r].pc = "add_link_to_bugzilla"
    /\ run[r].issue \in deleted
    /\ run' = [run EXCEPT ![r] = OnFail(@, "create_or_update_issue_remote_links", NotFound)]
    /\ UNCHANGED <<see_also, issues, deleted, faults>>
    /\ UNCHANGED service_vars

AddLinkToBugzillaFail(r) ==
    /\ run[r].pc = "add_link_to_bugzilla"
    /\ \E exc \in Excs :
         /\ Fault(exc)
         /\ run' = [run EXCEPT ![r] =
                      OnFail(@, "create_or_update_issue_remote_links", exc)]
    /\ UNCHANGED <<see_also, issues, deleted>>
    /\ UNCHANGED service_vars

\* maybe_update_issue: jira.update_jira_issue
UpdateIssueOk(r) ==
    /\ run[r].pc = "update_issue"
    /\ run' = [run EXCEPT ![r] =
                 EnterChanges([Served(@, "update_issue_field") EXCEPT
                                  !.resp = Append(@, "update")])]
    /\ UNCHANGED <<see_also, issues, deleted, faults>>
    /\ UNCHANGED service_vars

UpdateIssueFail(r) ==
    /\ run[r].pc = "update_issue"
    /\ \E exc \in Excs, applied \in BOOLEAN :
         /\ Fault(exc)
         /\ run' = [run EXCEPT ![r] =
                      OnFail(IF applied THEN [@ EXCEPT !.trace = Append(@, "update_issue_field")]
                             ELSE @,
                             "update_issue_field", exc)]
    /\ UNCHANGED <<see_also, issues, deleted>>
    /\ UNCHANGED service_vars

\* add_jira_comments_for_changes: client.issue_add_comment for the next comment
ChangesCommentOk(r) ==
    /\ run[r].pc = "changes_comment"
    /\ LET c == run[r]
           comment == changes_comments(c.changes)[c.cidx + 1]
       IN run' = [run EXCEPT ![r] =
                    EnterChanges([Served(c, "issue_add_comment") EXCEPT
                                     !.resp = Append(@, comment), !.cidx = @ + 1])]
    /\ UNCHANGED <<see_also, issues, deleted, faults>>
    /\ UNCHANGED service_vars

ChangesCommentFail(r) ==
    /\ run[r].pc = "changes_comment"
    /\ \E exc \in Excs, applied \in BOOLEAN :
         /\ Fault(exc)
         /\ run' = [run EXCEPT ![r] =
                      OnFail(IF applied THEN [@ EXCEPT !.trace = Append(@, "issue_add_comment")]
                             ELSE @,
                             "issue_add_comment", exc)]
    /\ UNCHANGED <<see_also, issues, deleted>>
    /\ UNCHANGED service_vars

Next ==
    \E r \in Runs :
        \/ Start(r)
        \/ AddJiraCommentOk(r) \/ AddJiraCommentFail(r)
        \/ GetCommentsOk(r) \/ GetCommentsFail(r)
        \/ CreateIssueOk(r) \/ CreateIssueFail(r) \/ CreateIssueErrors(r)
        \/ GetBugOk(r) \/ GetBugFail(r)
        \/ DeleteIssueOk(r) \/ DeleteIssueFail(r)
        \/ AddLinkToJiraOk(r) \/ AddLinkToJiraFail(r)
        \/ AddLinkToBugzillaOk(r) \/ AddLinkToBugzillaGone(r) \/ AddLinkToBugzillaFail(r)
        \/ UpdateIssueOk(r) \/ UpdateIssueFail(r)
        \/ ChangesCommentOk(r) \/ ChangesCommentFail(r)

Spec == Init /\ [][Next]_vars

\* Every attempt of a remote call returns or fails: while some run has a
\* next step, a step is taken.
FairSpec == Spec /\ WF_vars(Next)

-----------------------------------------------------------------------------
(* One operation of JiraService, called on its own *)

ServiceInit ==
    /\ run = [r \in Runs |-> IdleRun]
    /\ see_also = << >> /\ issues = << >>
    /\ deleted = {}
    /\ faults = MaxFaults
    /\ call \in ServiceCalls
    /\ ServiceIdle

\* create_jira_issue builds the fields of the issue.
CreateJiraIssue ==
    /\ call.method = "create_jira_issue" /\ svc.pc = "idle"
    /\ fields' = [description |-> truncate(call.description)]
    /\ svc' = [svc EXCEPT !.pc = "create_issue"]
    /\ UNCHANGED <<call, futures, all_projects_perms>>
    /\ UNCHANGED pipeline_vars

\* Jira serves client.create_issue: it rejects a description over its limit.
ClientCreateIssue ==
    /\ svc.pc = "create_issue"
    /\ svc' = IF Len(fields.description) > JIRA_DESCRIPTION_CHAR_LIMIT
              THEN [svc EXCEPT !.pc = "raised", !.err = "rejected"]
              ELSE [svc EXCEPT !.pc = "returned"]
    /\ UNCHANGED <<call, fields, futures, all_projects_perms>>
    /\ UNCHANGED pipeline_vars

\* _fetch_project_permissions submits one lookup for every project.
FetchProjectPermissions ==
    /\ call.method = "_fetch_project_permissions" /\ svc.pc = "idle"
    /\ futures' = [f \in Projects |-> [futures[f] EXCEPT !.state = "pending"]]
    /\ svc' = [svc EXCEPT !.pc = "as_completed"]
    /\ UNCHANGED <<call, fields, all_projects_perms>>
    /\ UNCHANGED pipeline_vars

\* A worker of the pool takes a queued lookup.
WorkerStart(f) ==
    /\ futures[f].state = "pending"
    /\ worker_available(Cardinality(Running))
    /\ futures' = [futures EXCEPT ![f].state = "running"]
    /\ UNCHANGED <<call, svc, fields, all_projects_perms>>
    /\ UNCHANGED pipeline_vars

\* client.get_permissions of a lookup returns the response for its project.
GetPermissionsOk(f) ==
    /\ futures[f].state = "running"
    /\ futures' = [futures EXCEPT ![f].state = "done",
                       ![f].response = call.permissions[futures[f].project_key]]
    /\ UNCHANGED <<call, svc, fields, all_projects_perms>>
    /\ UNCHANGED pipeline_vars

\* client.get_permissions of a lookup raises, at most once in a behaviour.
GetPermissionsFail(f) ==
    /\ futures[f].state = "running"
    /\ \A g \in Projects : futures[g].state # "failed"
    /\ futures' = [futures EXCEPT ![f].state = "failed"]
    /\ UNCHANGED <<call, svc, fields, all_projects_perms>>
    /\ UNCHANGED pipeline_vars

\* as_completed yields a completed lookup; its result is merged.
Collect(f) ==
    /\ svc.pc = "as_completed"
    /\ futures[f].state = "done"
    /\ all_projects_perms' =
           merge(all_projects_perms, futures[f].project_key, futures[f].response)
    /\ futures' = [futures EXCEPT ![f].state = "collected"]
    /\ UNCHANGED <<call, svc, fields>>
    /\ UNCHANGED pipeline_vars

\* as_completed yields a failed lookup: future.result() raises, and the
\* executor's exit waits for the other lookups.
CollectRaises(f) ==
    /\ svc.pc = "as_completed"
    /\ futures[f].state = "failed"
    /\ svc' = [svc EXCEPT !.pc = "shutdown", !.err = "HTTPError"]
    /\ UNCHANGED <<call, fields, futures, all_projects_perms>>
    /\ UNCHANGED pipeline_vars

\* The executor has shut down; the error leaves _fetch_project_permissions.
ShutdownRaises ==
    /\ svc.pc = "shutdown"
    /\ \A f \in Projects : futures[f].state \notin {"pending", "running"}
    /\ svc' = [svc EXCEPT !.pc = "raised"]
    /\ UNCHANGED <<call, fields, futures, all_projects_perms>>
    /\ UNCHANGED pipeline_vars

\* Every lookup was merged: _fetch_project_permissions returns the map.
ReturnPermissions ==
    /\ svc.pc = "as_completed"
    /\ \A f \in Projects : futures[f].state = "collected"
    /\ svc' = [svc EXCEPT !.pc = "returned"]
    /\ UNCHANGED <<call, fields, futures, all_projects_perms>>
    /\ UNCHANGED pipeline_vars

\* assign_jira_user calls find_jira_user.
AssignJiraUser ==
    /\ call.method = "assign_jira_user" /\ svc.pc = "idle"
    /\ svc' = [svc EXCEPT !.pc = "find_jira_user"]
    /\ UNCHANGED <<call, fields, futures, all_projects_perms>>
    /\ UNCHANGED pipeline_vars

\* user_find_by_user_string returns the users of the e-mail.
FindJiraUserOk ==
    /\ svc.pc = "find_jira_user"
    /\ svc' = IF find_jira_user_raises(call.users)
              THEN [svc EXCEPT !.pc = "raised", !.err = "ValueError",
                               !.lookups = @ + 1, !.tries = 0]
              ELSE [svc EXCEPT !.pc = "update_issue_field",
                               !.lookups = @ + 1, !.tries = 0]
    /\ UNCHANGED <<call, fields, futures, all_projects_perms>>
    /\ UNCHANGED pipeline_vars

\* user_find_by_user_string raises.
FindJiraUserFail ==
    /\ svc.pc = "find_jira_user"
    /\ \E exc \in Excs :
         svc' = IF /\ Instrumented("user_find_by_user_string")
                   /\ ~fatal_code(exc) /\ svc.tries + 1 < MaxTries
                THEN [svc EXCEPT !.lookups = @ + 1, !.tries = @ + 1]
                ELSE [svc EXCEPT !.pc = "raised", !.err = "HTTPError",
                                 !.lookups = @ + 1, !.tries = 0]
    /\ UNCHANGED <<call, fields, futures, all_projects_perms>>
    /\ UNCHANGED pipeline_vars

\* update_issue_field sets the assignee.
UpdateAssigneeOk ==
    /\ svc.pc = "update_issue_field"
    /\ svc' = [svc EXCEPT !.pc = "returned", !.updates = @ + 1, !.tries = 0]
    /\ UNCHANGED <<call, fields, futures, all_projects_perms>>
    /\ UNCHANGED pipeline_vars

\* update_issue_field raises: the error is retried by the client, and
\* raised as a ValueError when the client gives up.
UpdateAssigneeFail ==
    /\ svc.pc = "update_issue_field"
    /\ \E exc \in Excs :
         svc' = IF /\ Instrumented("update_issue_field")
                   /\ ~fatal_code(exc) /\ svc.tries + 1 < MaxTries
                THEN [svc EXCEPT !.updates = @ + 1, !.tries = @ + 1]
                ELSE [svc EXCEPT !.pc = "raised", !.err = "ValueError",
                                 !.updates = @ + 1, !.tries = 0]
    /\ UNCHANGED <<call, fields, futures, all_projects_perms>>
    /\ UNCHANGED pipeline_vars

\* update_issue_components is called: missing_components = set(components).
UpdateIssueComponents ==
    /\ call.method = "update_issue_components" /\ svc.pc = "idle"
    /\ svc' = [svc EXCEPT !.pc = "get_project_components",
                          !.missing_components =
                              {call.components[i] : i \in 1..Len(call.components)}]
    /\ UNCHANGED <<call, fields, futures, all_projects_perms>>
    /\ UNCHANGED pipeline_vars

\* get_project_components returns; the loop matches the names, and without
\* a match the method returns None and the missing names.
GetProjectComponents ==
    /\ svc.pc = "get_project_components"
    /\ LET m == match_components(call.all_project_components,
                                 svc.missing_components, << >>)
       IN svc' = IF m.jira_components = << >>
                 THEN [svc EXCEPT !.pc = "returned", !.resp = "None",
                                  !.missing_components = m.missing_components,
                                  !.calls = Append(@, "get_project_components")]
                 ELSE [svc EXCEPT !.pc = "update_components",
                                  !.missing_components = m.missing_components,
                                  !.jira_components = m.jira_components,
                                  !.calls = Append(@, "get_project_components")]
    /\ UNCHANGED <<call, fields, futures, all_projects_perms>>
    /\ UNCHANGED pipeline_vars

\* update_issue_field(fields={"components": jira_components}) returns.
UpdateComponents ==
    /\ svc.pc = "update_components"
    /\ svc' = [svc EXCEPT !.pc = "returned", !.resp = "response",
                          !.updates = @ + 1,
                          !.calls = Append(@, "update_issue_field")]
    /\ UNCHANGED <<call, fields, futures, all_projects_perms>>
    /\ UNCHANGED pipeline_vars

\* check_health is called.
CheckHealth ==
    /\ call.method = "check_health" /\ svc.pc = "idle"
    /\ svc' = [svc EXCEPT !.pc = "get_server_info"]
    /\ UNCHANGED <<call, fields, futures, all_projects_perms>>
    /\ UNCHANGED pipeline_vars

\* get_server_info(True) returns the server's information, or nothing.
GetServerInfo ==
    /\ svc.pc = "get_server_info"
    /\ svc' = [svc EXCEPT !.pc = "health", !.flag = 1,
                          !.is_up = call.server_info,
                          !.calls = Append(@, "get_server_info"),
                          !.health = <<[key |-> "up", value |-> call.server_info]>>]
    /\ UNCHANGED <<call, fields, futures, all_projects_perms>>
    /\ UNCHANGED pipeline_vars

\* `is_up and ...` with is_up false: the flag is false, its lookup not made.
HealthFlagDown ==
    /\ svc.pc = "health" /\ svc.flag <= Len(HealthFlags)
    /\ is_gated(HealthFlags[svc.flag]) /\ ~svc.is_up
    /\ svc' = [svc EXCEPT !.flag = @ + 1,
                          !.health = Append(@, [key |-> HealthFlags[svc.flag],
                                                value |-> FALSE])]
    /\ UNCHANGED <<call, fields, futures, all_projects_perms>>
    /\ UNCHANGED pipeline_vars

\* The lookup of the next flag is made and gives the flag its value.
HealthFlagLookup ==
    /\ svc.pc = "health" /\ svc.flag <= Len(HealthFlags)
    /\ ~(is_gated(HealthFlags[svc.flag]) /\ ~svc.is_up)
    /\ svc' = [svc EXCEPT !.flag = @ + 1,
                          !.calls = Append(@, HealthLookup(HealthFlags[svc.flag])),
                          !.health = Append(@, [key |-> HealthFlags[svc.flag],
                                                value |-> call.answers[HealthFlags[svc.flag]]])]
    /\ UNCHANGED <<call, fields, futures, all_projects_perms>>
    /\ UNCHANGED pipeline_vars

\* check_health returns the dictionary.
ReturnHealth ==
    /\ svc.pc = "health" /\ svc.flag > Len(HealthFlags)
    /\ svc' = [svc EXCEPT !.pc = "returned"]
    /\ UNCHANGED <<call, fields, futures, all_projects_perms>>
    /\ UNCHANGED pipeline_vars

ServiceNext ==
    \/ CreateJiraIssue \/ ClientCreateIssue
    \/ UpdateIssueComponents \/ GetProjectComponents \/ UpdateComponents
    \/ CheckHealth \/ GetServerInfo
    \/ HealthFlagDown \/ HealthFlagLookup \/ ReturnHealth
    \/ FetchProjectPermissions
    \/ \E f \in Projects :
         \/ WorkerStart(f)
         \/ GetPermissionsOk(f) \/ GetPermissionsFail(f)
         \/ Collect(f) \/ CollectRaises(f)
    \/ ShutdownRaises \/ ReturnPermissions
    \/ AssignJiraUser
    \/ FindJiraUserOk \/ FindJiraUserFail
    \/ UpdateAssigneeOk \/ UpdateAssigneeFail

ServiceSpec == ServiceInit /\ [][ServiceNext]_vars

-----------------------------------------------------------------------------
(* Properties *)

Finished(r) == run[r].pc \in {"done", "raised"}

\* The number of times method m is in the sequence of served calls t.
Count(t, m) == Cardinality({i \in 1..Len(t) : t[i] = m})

\* The keys of the issues that the create_issue calls of run r made.
IssuesOf(r) == {k \in 1..Len(issues) : issues[k] = r}

\* A status of the 4xx class, as the retry policy words it.
Is4xx(exc) == exc.resp /\ exc.status \in 400..499

\* C1: in every pipeline run that returns, handled is false if and only if
\* the operation of the context is still IGNORE after the last step.
C1_HandledIffNotIgnore ==
    \A r \in Runs :
        run[r].pc = "done" => (run[r].handled = FALSE <=> run[r].op = "IGNORE")

\* One run returned as a no-op and the other returned having acted.
C1_Witness ==
    \E r, q \in Runs :
        /\ run[r].pc = "done" /\ run[r].op = "IGNORE" /\ ~run[r].handled
        /\ run[q].pc = "done" /\ run[q].op = "COMMENT" /\ run[q].handled

\* C2: within one run the operation leaves IGNORE at most once: once it is
\* CREATE, UPDATE or COMMENT no later step changes it.
C2_OperationChangesOnce ==
    [][\A r \in Runs : run[r].op # "IGNORE" => run'[r].op = run[r].op]_vars

\* A creation run went through the update step and the change-comment step
\* with its issue set, and returned.
C2_Witness ==
    \E r \in Runs :
        /\ run[r].pc = "done" /\ run[r].op = "CREATE"
        /\ run[r].target = "bug" /\ run[r].issue # None

\* C3: of two concurrent creation runs a and b where a's create_issue
\* committed before b's, b's re-fetch observes a's key and b deletes b's own
\* issue; a's issue is never deleted.
C3_DuplicateRollback ==
    \A a, b \in Runs :
        ( /\ a # b
          /\ run[a].op = "CREATE" /\ run[b].op = "CREATE"
          /\ run[a].issue # None /\ run[b].issue # None
          /\ run[a].issue < run[b].issue
          /\ run[b].checked )
        => /\ run[b].ref = run[a].issue
           /\ run[a].issue \notin deleted
           /\ run[b].pc = "done" => run[b].issue \in deleted

\* C4: once all the concurrent creation runs for the bug have finished, at
\* most one issue created by them still exists. Stated for the behaviours in
\* which no remote call failed.
C4_AtMostOneIssueSurvives ==
    ( /\ \A r \in Runs : Finished(r)
      /\ faults = MaxFaults )
    => Cardinality({k \in 1..Len(issues) : issues[k] \in Runs /\ k \notin deleted}) <= 1

\* C5: in a creation run delete_issue is called if and only if the bug as
\* re-fetched holds a key of the configured project that is not the key the
\* run just created, and the key passed to delete_issue is the key that was
\* created by this run.
C5_DeleteIffDuplicate ==
    \A r \in Runs :
        LET c == run[r]
            differs == c.ref # None /\ KeyProject(c.ref) = jira_project_key
                       /\ c.ref # c.issue
            called == c.pc = "delete_issue" \/ c.delarg # None
        IN /\ c.checked => (called <=> differs)
           /\ ~c.checked => ~called
           /\ c.delarg # None => c.delarg = c.issue /\ c.delarg \in IssuesOf(r)

\* A run called delete_issue after its re-fetch showed the key of another issue.
C5_Witness ==
    \E r \in Runs :
        /\ run[r].delarg # None /\ run[r].ref # None
        /\ "delete_issue" \in {run[r].trace[i] : i \in 1..Len(run[r].trace)}

\* C6: a creation run that deleted its issue as a duplicate executes neither
\* link step afterwards, whatever delete_issue returned.
C6_NoLinkAfterDelete ==
    \A r \in Runs :
        Count(run[r].trace, "delete_issue") > 0
        => /\ Count(run[r].trace, "update_bug") = 0
           /\ Count(run[r].trace, "create_or_update_issue_remote_links") = 0

\* C7: for a call made through the retry wrapper, a failure with a status in
\* 400..499 is propagated at once and never retried; a failure with another
\* status or with no response is retried, and is propagated only when
\* MaxTries attempts were made.
C7_RetryClassification ==
    \A r \in Runs :
        LET c == run[r] IN
        /\ (c.pc # "raised" /\ c.tries > 0) => ~Is4xx(c.err) /\ c.tries < MaxTries
        /\ (c.pc = "raised" /\ Instrumented(c.at) /\ ~Is4xx(c.err)) => c.tries = MaxTries
        /\ (c.pc = "raised" /\ Instrumented(c.at)) => c.tries \in 1..MaxTries

\* A call through the wrapper was retried after failures with 503 and given
\* up after MaxTries attempts.
C7_Witness ==
    \E r \in Runs :
        /\ run[r].pc = "raised" /\ Instrumented(run[r].at)
        /\ run[r].err = [resp |-> TRUE, status |-> 503]
        /\ run[r].tries = MaxTries /\ MaxTries > 1

\* C8: every call to the Jira client is retried on a transient failure: none
\* is propagated with a transient error before MaxTries attempts were made.
C8_AllJiraCallsRetried ==
    \A r \in Runs :
        (run[r].pc = "raised" /\ run[r].at \in JiraMethods /\ ~Is4xx(run[r].err))
        => run[r].tries = MaxTries

\* C9: within one run each remote side effect takes effect at most once,
\* retries included: one issue created, one field update, one comment of a
\* comment event.
C9_AtMostOnce ==
    \A r \in Runs :
        /\ Cardinality(IssuesOf(r)) <= 1
        /\ Count(run[r].trace, "update_issue_field") <= 1
        /\ run[r].op = "COMMENT" => Count(run[r].trace, "issue_add_comment") <= 1

\* The new-record scenario: a bug event on a bug with no linked issue, whose
\* re-fetch showed no other issue, ran to its end.
NewRecordRun(r) ==
    /\ run[r].pc = "done" /\ run[r].op = "CREATE"
    /\ run[r].target = "bug"
    /\ run[r].delarg = None

\* C10, as amended: the new-record run creates the issue, adds both
\* cross-links and returns handled = true with exactly 2 responses, the
\* source-side link response then the target-side link response.
C10_NewRecordTwoResponses ==
    \A r \in Runs :
        NewRecordRun(r)
        => /\ run[r].handled
           /\ run[r].issue \in IssuesOf(r)
           /\ \E i \in 1..Len(see_also) : see_also[i] = run[r].issue
           /\ Count(run[r].trace, "create_or_update_issue_remote_links") = 1
           /\ run[r].resp = <<"link_bugzilla", "link_jira">>

C10_Witness ==
    \E r \in Runs :
        /\ NewRecordRun(r)
        /\ run[r].trace = <<"get_comments", "create_issue", "get_bug", "update_bug",
                            "create_or_update_issue_remote_links">>

\* C10 as claimed: the new-record run returns exactly 3 responses, the create
\* response, the source-side link response and the target-side link response.
C10_NewRecordThreeResponses ==
    \A r \in Runs :
        NewRecordRun(r)
        => /\ run[r].handled
           /\ Len(run[r].resp) = 3
           /\ run[r].resp[2] = "link_bugzilla"
           /\ run[r].resp[3] = "link_jira"

\* The served calls of run r.
Calls(r) == {run[r].trace[i] : i \in 1..Len(run[r].trace)}

\* C11: for a bug that already holds a linked issue, every run of a bug event
\* is classified as existing: the operation becomes UPDATE and never CREATE,
\* and no create_issue call is issued, in each of the runs.
C11_LinkedBugIsUpdated ==
    \A r \in Runs :
        (run[r].pc # "idle" /\ run[r].target = "bug" /\ run[r].linked # None)
        => /\ run[r].op = "UPDATE"
           /\ run[r].pc # "create_issue" /\ run[r].pc # "get_comments"
           /\ "create_issue" \notin Calls(r)
           /\ IssuesOf(r) = {}
           /\ run[r].issue = run[r].linked

\* Both runs handled a bug event for the linked bug, and both updated.
C11_Witness ==
    \A r \in Runs :
        /\ run[r].pc = "done" /\ run[r].target = "bug" /\ run[r].linked # None
        /\ "update_issue_field" \in Calls(r)

\* C12: a run of a comment event for a bug with no linked issue, or with no
\* comment in the payload, issues no remote call, leaves the operation at
\* IGNORE and returns handled = false with no response.
C12_CommentNoop ==
    \A r \in Runs :
        ( /\ run[r].pc # "idle" /\ run[r].target = "comment"
          /\ (run[r].linked = None \/ ~run[r].comment) )
        => /\ run[r].pc = "done"
           /\ run[r].op = "IGNORE" /\ ~run[r].handled
           /\ run[r].resp = << >> /\ run[r].trace = << >>
           /\ run[r].tries = 0 /\ run[r].at = ""

\* A comment event without a comment in the payload was run for a linked
\* bug, beside a comment event that was posted.
C12_Witness ==
    \E r, q \in Runs :
        /\ run[r].pc = "done" /\ run[r].target = "comment"
        /\ run[r].linked # None /\ ~run[r].comment
        /\ run[q].pc = "done" /\ run[q].op = "COMMENT"

\* C13: a bug event whose only changed field is status, for a bug with a
\* linked issue, returns handled = true and exactly one update response
\* followed by one comment response, the comment of status and resolution.
C13_StatusChangeScenario ==
    \A r \in Runs :
        ( /\ run[r].pc = "done" /\ run[r].target = "bug"
          /\ run[r].linked # None /\ run[r].changes = <<"status">> )
        => /\ run[r].handled
           /\ run[r].resp = <<"update", "status_resolution">>

C13_Witness ==
    \E r \in Runs :
        /\ run[r].pc = "done" /\ run[r].target = "bug"
        /\ run[r].linked # None /\ run[r].changes = <<"status">>
        /\ run[r].trace = <<"update_issue_field", "issue_add_comment">>

\* C14: an error that leaves a remote call ends the run as raised; a raised
\* run executes nothing more, and the issues it created before are not
\* deleted afterwards.
C14_FailFast ==
    /\ [](\A r \in Runs : run[r].at # "" => run[r].pc = "raised")
    /\ [][\A r \in Runs :
            run[r].pc = "raised"
            => /\ run'[r] = run[r]
               /\ \A k \in IssuesOf(r) : k \notin deleted => k \notin deleted']_vars

\* A run raised in its target-side link step, its issue created, linked in
\* Bugzilla and not deleted, and the other run went on to its end.
C14_Witness ==
    \E r, q \in Runs :
        /\ run[r].pc = "raised" /\ run[r].at = "create_or_update_issue_remote_links"
        /\ run[r].issue \in IssuesOf(r) /\ run[r].issue \notin deleted
        /\ run[r].delarg = None
        /\ run[q].pc = "done" /\ run[q].trace # << >>

\* C15: when the create_issue response, or its first item, lists errors or
\* error messages, creation raises; the run sets no issue in its context and
\* issues no re-fetch, delete or link call.
C15_MalformedCreateResponse ==
    \A r \in Runs :
        run[r].cerr
        => /\ run[r].pc = "raised" /\ run[r].err = JiraCreateError
           /\ run[r].issue = None
           /\ ~run[r].checked /\ run[r].delarg = None
           /\ Calls(r) \cap {"get_bug", "delete_issue", "update_bug",
                             "create_or_update_issue_remote_links"} = {}

C15_Witness ==
    \E r \in Runs :
        /\ run[r].cerr /\ run[r].pc = "raised"
        /\ run[r].trace = <<"get_comments">>

\* C19: a run whose creation step ran issues no call of the update step or of
\* the change-comment step: no run both creates and updates an issue.
C19_NoUpdateInCreationRun ==
    \A r \in Runs :
        (run[r].op = "CREATE" \/ "create_issue" \in Calls(r) \/ IssuesOf(r) # {})
        => /\ run[r].op = "CREATE"
           /\ run[r].pc \notin {"update_issue", "changes_comment"}
           /\ "update_issue_field" \notin Calls(r)
           /\ "issue_add_comment" \notin Calls(r)
           /\ run[r].cidx = 0

\* A creation run for a bug event with changes passed the update step and
\* the change-comment step with its issue set, and returned.
C19_Witness ==
    \E r \in Runs :
        /\ run[r].pc = "done" /\ run[r].op = "CREATE"
        /\ run[r].issue # None /\ run[r].changes # << >>
        /\ "create_or_update_issue_remote_links" \in Calls(r)

\* The changes of an event that are commented: status, resolution, assignee.
CommentedChanges(changes) ==
    SelectSeq(changes, LAMBDA f : f \in {"status", "resolution", "assigned_to", "assignee"})

\* The comments the commented changes ask for, in their order.
ExpectedComments(changes) ==
    LET sel == CommentedChanges(changes)
    IN [i \in 1..Len(sel) |->
          IF sel[i] \in {"status", "resolution"} THEN "status_resolution" ELSE "assignee"]

\* C20: in a run whose operation is UPDATE the change-comment step issues one
\* comment call per change of status, resolution or assignee, in the order
\* of the changes and after the update call; in any other run it issues none.
C20_ChangeComments ==
    \A r \in Runs :
        LET c == run[r]
            expected == ExpectedComments(c.changes)
        IN /\ c.op # "UPDATE" => c.cidx = 0 /\ c.pc # "changes_comment"
           /\ c.op = "UPDATE"
              => /\ c.cidx <= Len(expected)
                 /\ c.pc = "done" => c.cidx = Len(expected)
                 /\ c.pc = "changes_comment" => c.cidx < Len(expected)
                 /\ (c.pc \in {"changes_comment", "done"} \/ c.cidx > 0)
                    => /\ c.trace # << >> /\ c.trace[1] = "update_issue_field"
                       /\ c.resp = <<"update">> \o SubSeq(expected, 1, c.cidx)

\* An update run posted the comments of the changes summary, assigned_to and
\* resolution: two comments, for the assignee and then for the resolution.
C20_Witness ==
    \E r \in Runs :
        /\ run[r].pc = "done" /\ run[r].op = "UPDATE"
        /\ run[r].changes = <<"summary", "assigned_to", "resolution">>
        /\ run[r].resp = <<"update", "assignee", "status_resolution">>

\* C16: the description sent in the fields of create_issue is the first
\* min(len, 32767) characters of the description given: a longer one is cut
\* to 32767 characters, a shorter one is sent as it is, and Jira does not
\* reject the creation for its length.
C16_Truncation ==
    (call.method = "create_jira_issue" /\ svc.pc # "idle")
    => LET given == call.description
           sent == fields.description
           n == IF Len(given) < 32767 THEN Len(given) ELSE 32767
       IN /\ Len(sent) = n
          /\ \A i \in 1..n : sent[i] = given[i]
          /\ Len(given) <= 32767 => sent = given
          /\ svc.pc # "raised"

\* A description of 32771 characters of the pattern was sent cut to 32767
\* and the issue was created.
C16_Witness ==
    /\ call.method = "create_jira_issue" /\ svc.pc = "returned"
    /\ Len(call.description) = 32771
    /\ call.description[1] # call.description[2]
    /\ Len(fields.description) = 32767

\* C17: at most 4 permission lookups are in flight at any moment, and when
\* all have completed and the map is returned, it has one entry for every
\* configured project, holding the response for that project, whatever the
\* order of completion.
C17_PermissionLookups ==
    /\ Cardinality({f \in Projects : futures[f].state = "running"}) <= 4
    /\ (call.method = "_fetch_project_permissions" /\ svc.pc = "returned")
       => /\ DOMAIN all_projects_perms = Projects
          /\ \A p \in Projects : all_projects_perms[p] = call.permissions[p]

\* The map was returned for projects of which the first and the last differ
\* in their permissions.
C17_Witness ==
    /\ call.method = "_fetch_project_permissions" /\ svc.pc = "returned"
    /\ call.permissions[1] = "granted" /\ call.permissions[NumProjects] = "denied"
    /\ DOMAIN all_projects_perms = Projects

\* C18: assign_jira_user issues the update of the assignee only when the
\* lookup returned exactly one user; for no user or more than one it raises
\* a ValueError with no update call, and the lookup is called once.
C18_UserLookupValidation ==
    call.method = "assign_jira_user"
    => /\ (svc.pc = "update_issue_field" \/ svc.updates > 0) => Len(call.users) = 1
       /\ (Len(call.users) # 1 /\ svc.pc \notin {"idle", "find_jira_user"})
          => /\ svc.pc = "raised"
             /\ svc.err \in {"ValueError", "HTTPError"}
             /\ svc.updates = 0
       /\ svc.lookups <= 1
       /\ (svc.pc = "find_jira_user") = (svc.lookups = 0 /\ svc.pc # "idle")

\* The lookup returned two users: a ValueError after one lookup.
C18_Witness ==
    /\ call.method = "assign_jira_user" /\ Len(call.users) = 2
    /\ svc.pc = "raised" /\ svc.err = "ValueError"
    /\ svc.lookups = 1 /\ svc.updates = 0

\* C21: within a run the issue of the context is assigned at most once after
\* the context is built, by the creation step alone and only when the bug had
\* no linked issue at the start; a key taken from see_also is kept for the
\* whole run.
C21_IssueAssignedOnce ==
    /\ [](\A r \in Runs :
            (run[r].pc # "idle" /\ run[r].linked # None) => run[r].issue = run[r].linked)
    /\ [][\A r \in Runs :
            (run[r].pc # "idle" /\ run'[r].issue # run[r].issue)
            => /\ run[r].linked = None /\ run[r].issue = None
               /\ run[r].pc = "create_issue" /\ run[r].op = "CREATE"
               /\ run'[r].issue # None]_vars

\* One run created and linked its issue and returned; the other, started
\* afterwards, kept that key from see_also to its end.
C21_Witness ==
    \E r, q \in Runs :
        /\ run[r].pc = "done" /\ run[r].linked = None /\ run[r].issue # None
        /\ run[q].pc = "done" /\ run[q].linked = run[r].issue
        /\ run[q].issue = run[q].linked /\ run[q].trace # << >>

\* The place of a call in the order of the creation step.
CreationRank(m) ==
    CASE m = "get_comments" -> 1
      [] m = "create_issue" -> 2
      [] m = "get_bug" -> 3
      [] m \in {"delete_issue", "update_bug"} -> 4
      [] m = "create_or_update_issue_remote_links" -> 5
      [] OTHER -> 6

\* C22: in a creation run the calls come in the order get_comments,
\* create_issue, get_bug, then either delete_issue or update_bug followed by
\* create_or_update_issue_remote_links; no link is written before the
\* re-fetch and no call is made before the operation is CREATE.
C22_CreationCallOrder ==
    \A r \in Runs :
        LET t == run[r].trace IN
        /\ t # << >> => run[r].op # "IGNORE"
        /\ run[r].op = "CREATE"
           => /\ \A i, j \in 1..Len(t) :
                    i < j => CreationRank(t[i]) <= CreationRank(t[j])
              /\ Calls(r) \subseteq {"get_comments", "create_issue", "get_bug", "delete_issue",
                                     "update_bug", "create_or_update_issue_remote_links"}
              /\ (Calls(r) \cap {"update_bug", "create_or_update_issue_remote_links"} # {})
                 => ("get_bug" \in Calls(r) /\ "delete_issue" \notin Calls(r))

\* C23: every change of the context's operation or issue comes with a new
\* context: the context holds the fields it was made with.
C23_MutationsMakeSnapshots ==
    \A r \in Runs :
        run[r].pc # "idle"
        => run[r].snap = [op |-> run[r].op, issue |-> run[r].issue]

\* C24: every run ends, returned or raised; and a call whose attempts all
\* fail ends as raised once the attempts allowed are used up.
C24_Termination ==
    /\ <>(\A r \in Runs : run[r].pc \in {"done", "raised"})
    /\ [](\A r \in Runs : run[r].tries >= MaxTries => run[r].pc = "raised")

\* A call failed with a 503 on every attempt and the run raised; the other
\* run returned.
C24_Witness ==
    \E r, q \in Runs :
        /\ run[r].pc = "raised" /\ run[r].tries = MaxTries
        /\ run[r].err.resp /\ run[r].err.status = 503
        /\ run[q].pc = "done"

\* The names of the components of the project.
ProjectNames ==
    {call.all_project_components[i].name : i \in 1..Len(call.all_project_components)}

\* The names asked for.
RequestedNames == {call.components[i] : i \in 1..Len(call.components)}

\* C25: update_issue_components returns as missing exactly the names asked
\* for that are not components of the project and sends exactly the
\* components of the names asked for that are; when none is, it issues no
\* update call and the response is None.
C25_ComponentsPartition ==
    (call.method = "update_issue_components" /\ svc.pc \in {"update_components", "returned"})
    => LET found == RequestedNames \cap ProjectNames
           sent == {svc.jira_components[i] : i \in 1..Len(svc.jira_components)}
       IN /\ svc.missing_components = RequestedNames \ ProjectNames
          /\ sent = {[id |-> <<"id", n>>] : n \in found}
          /\ Len(svc.jira_components) = Cardinality(found)
          /\ svc.pc = "update_components" => found # {}
          /\ svc.pc = "returned"
             => IF found = {}
                THEN svc.resp = "None" /\ svc.updates = 0
                     /\ svc.calls = <<"get_project_components">>
                ELSE svc.resp = "response" /\ svc.updates = 1
                     /\ svc.calls = <<"get_project_components", "update_issue_field">>

\* Two names were asked for, one a component of the project: its component
\* was sent and the other name returned as missing.
C25_Witness ==
    /\ call.method = "update_issue_components" /\ svc.pc = "returned"
    /\ Cardinality(RequestedNames) = 2
    /\ Cardinality(svc.missing_components) = 1
    /\ Len(svc.jira_components) = 1 /\ svc.updates = 1

\* The value of a key in the dictionary check_health builds.
HealthValue(key) ==
    LET i == CHOOSE i \in 1..Len(svc.health) : svc.health[i].key = key
    IN svc.health[i].value

\* C26: when get_server_info returns nothing, the flags of visibility,
\* components and issue types are false and their lookups are not made; the
\* permission lookups are made whatever the server said, and
\* all_projects_have_permissions is their result alone.
C26_HealthGating ==
    (call.method = "check_health" /\ svc.pc = "returned")
    => LET made == {svc.calls[i] : i \in 1..Len(svc.calls)}
       IN /\ HealthValue("up") = call.server_info
          /\ ~call.server_info
             => /\ ~HealthValue("all_projects_are_visible")
                /\ ~HealthValue("all_projects_components_exist")
                /\ ~HealthValue("all_projects_issue_types_exist")
                /\ made = {"get_server_info", "get_permissions"}
          /\ "get_permissions" \in made
          /\ HealthValue("all_projects_have_permissions")
                = call.answers["all_projects_have_permissions"]

\* The server gave no information, the permissions are in order, and the
\* other lookups would have answered true.
C26_Witness ==
    /\ call.method = "check_health" /\ svc.pc = "returned"
    /\ ~call.server_info
    /\ \A i \in 1..Len(HealthFlags) : call.answers[HealthFlags[i]]
    /\ HealthValue("all_projects_have_permissions")
    /\ ~HealthValue("all_projects_are_visible")

====
